---- MODULE Spec2Model ----
(***************************************************************************)
(* Model of the calculator of buraito-kun/test-mono-repo:                  *)
(*   - the backend engine, AppService.calculator (app.service.ts);         *)
(*   - the frontend engine, calculateLocally (lib/calculate.ts);           *)
(*   - the frontend boundary, fetchCalculation (lib/calculate.ts).         *)
(*                                                                         *)
(* JavaScript numbers are modelled as records: a finite number is the      *)
(* rational n/d in lowest terms (d > 0), standing for the double nearest   *)
(* to n/d; NaN and the two infinities are values of their own.  Within the *)
(* operand bounds every result below comes from one correctly rounded      *)
(* operation on exactly representable operands, so equal rationals stand   *)
(* for equal doubles.  Zero is unsigned (-0 and 0 are one value, as under  *)
(* ===), and NaN is one value (as under Object.is).  A thrown exception is *)
(* the outcome Throw.                                                      *)
(***************************************************************************)
EXTENDS Integers, Sequences, FiniteSets, TLC

VARIABLES
    req,      \* engine: the triple {a, b, op} the engines are applied to
    svcOut,   \* engine: outcome of AppService.calculator(req), or NotCalled
    locOut,   \* engine: outcome of calculateLocally(req), or NotCalled
    ctlOut,   \* engine: outcome of AppController.calculation(req), or NotCalled
    apiUrl,   \* process.env.NEXT_PUBLIC_API_URL
    fc,       \* the fetchCalculation call: position, arguments, outcome
    net,      \* the axios.post request in flight, or NoRequest
    calls,    \* concurrent fetchCalculation calls, by call
    nets,     \* the request in flight of each concurrent call
    authEnv,  \* process.env.BASIC_AUTH_USER and BASIC_AUTH_PASS
    authReq,  \* the Authorization header of the request given to the middleware
    authRes,  \* what the middleware did to the response, and its next() calls
    page,     \* the state of the Home component: a, b, op, value, flags
    handlers  \* the onClickCalculate invocations, by the call each awaits

vars == <<req, svcOut, locOut, ctlOut, apiUrl, fc, net, calls, nets,
          authEnv, authReq, authRes, page, handlers>>

pageVars == <<page, handlers>>

concVars == <<calls, nets>>

authVars == <<authEnv, authReq, authRes>>

(***************************************************************************)
(* Bounds.                                                                 *)
(***************************************************************************)
MaxOperand == 8

MaxCalls == 2

MaxSubmits == 1

MaxOverlap == 2

MaxSecretLen == 2

MaxCredLen == 5

Operands == (0 - MaxOperand)..MaxOperand

\* The five operators of the Operator enum, its UNKNOWN member '' and the
\* two unsupported symbols the sources name.
Ops == {"+", "-", "*", "/", "^", "", "**", "%"}

(***************************************************************************)
(* JavaScript number values.                                               *)
(***************************************************************************)
Abs(x) == IF x < 0 THEN 0 - x ELSE x

Sign(x) == IF x < 0 THEN 0 - 1 ELSE 1

RECURSIVE GCD(_, _)
GCD(x, y) == IF y = 0 THEN x ELSE GCD(y, x % y)

NaN == [kind |-> "nan", n |-> 0, d |-> 1]

Inf(s) == [kind |-> "inf", n |-> s, d |-> 0]

Throw == [kind |-> "throw", n |-> 0, d |-> 1]

\* The finite number n/d (d # 0), in lowest terms with a positive denominator.
Rat(n, d) ==
    LET g == GCD(Abs(n), Abs(d))
    IN  [kind |-> "num", n |-> (Sign(d) * n) \div g, d |-> Abs(d) \div g]

Num(n) == Rat(n, 1)

NotCalled == [kind |-> "none", n |-> 0, d |-> 1]

\* a / b of two integers, as the JavaScript operator gives it.
JsDivide(a, b) ==
    IF b # 0 THEN Rat(a, b)
    ELSE IF a = 0 THEN NaN
    ELSE Inf(Sign(a))

\* Mutant: the sign of the exponent is dropped.
MathPowAbsExponent(a, b) ==
    IF b = 0 THEN Num(1) ELSE Num(a ^ Abs(b))

\* Math.pow(a, b) of two integers.
MathPow(a, b) ==
    IF b = 0 THEN Num(1)
    ELSE IF b > 0 THEN Num(a ^ b)
    ELSE IF a = 0 THEN Inf(1)
    ELSE Rat(1, a ^ (0 - b))

(***************************************************************************)
(* Number.prototype.toFixed and Number(string).  A string is a sequence of *)
(* one-character strings.                                                  *)
(***************************************************************************)
Digits == <<"0", "1", "2", "3", "4", "5", "6", "7", "8", "9">>

DigitChar(v) == Digits[v + 1]

DigitVal(c) == CHOOSE v \in 0..9 : Digits[v + 1] = c

RECURSIVE IntToDigits(_)
IntToDigits(n) ==
    IF n < 10 THEN <<DigitChar(n)>>
    ELSE Append(IntToDigits(n \div 10), DigitChar(n % 10))

RECURSIVE PadLeft(_, _)
PadLeft(s, len) == IF Len(s) >= len THEN s ELSE PadLeft(<<"0">> \o s, len)

RECURSIVE DigitsToInt(_)
DigitsToInt(s) ==
    IF s = <<>> THEN 0
    ELSE 10 * DigitsToInt(SubSeq(s, 1, Len(s) - 1)) + DigitVal(s[Len(s)])

StrNaN == <<"N", "a", "N">>

StrInfinity == <<"I", "n", "f", "i", "n", "i", "t", "y">>

\* Mutant: the digits after the f-th are cut off instead of rounded.
toFixedTruncating(x, f) ==
    IF x.kind = "nan" THEN StrNaN
    ELSE IF x.kind = "inf"
         THEN (IF x.n < 0 THEN <<"-">> ELSE <<>>) \o StrInfinity
    ELSE LET s  == IF x.n < 0 THEN <<"-">> ELSE <<>>
             n  == ((10 ^ f) * Abs(x.n)) \div x.d
             m  == PadLeft(IntToDigits(n), f + 1)
             k  == Len(m)
         IN  s \o SubSeq(m, 1, k - f) \o <<".">> \o SubSeq(m, k - f + 1, k)

\* x.toFixed(f): the sign, then the integer n with n / 10^f closest to |x|
\* (the larger n on a tie), written with at least f + 1 digits and a point
\* before the last f.
toFixed(x, f) ==
    IF x.kind = "nan" THEN StrNaN
    ELSE IF x.kind = "inf"
         THEN (IF x.n < 0 THEN <<"-">> ELSE <<>>) \o StrInfinity
    ELSE LET s  == IF x.n < 0 THEN <<"-">> ELSE <<>>
             n  == (2 * (10 ^ f) * Abs(x.n) + x.d) \div (2 * x.d)
             m  == PadLeft(IntToDigits(n), f + 1)
             k  == Len(m)
         IN  s \o SubSeq(m, 1, k - f) \o <<".">> \o SubSeq(m, k - f + 1, k)

\* Position of the decimal point in a string, 0 when it has none.
PointAt(s) ==
    IF \E i \in 1..Len(s) : s[i] = "."
    THEN CHOOSE i \in 1..Len(s) : s[i] = "."
    ELSE 0

\* Number(s) for the strings toFixed produces.
ToNumber(s) ==
    IF s = StrNaN THEN NaN
    ELSE IF s = StrInfinity THEN Inf(1)
    ELSE IF s = <<"-">> \o StrInfinity THEN Inf(0 - 1)
    ELSE LET neg  == s[1] = "-"
             body == IF neg THEN Tail(s) ELSE s
             p    == PointAt(body)
             ip   == IF p = 0 THEN body ELSE SubSeq(body, 1, p - 1)
             fp   == IF p = 0 THEN <<>> ELSE SubSeq(body, p + 1, Len(body))
             mag  == DigitsToInt(ip \o fp)
         IN  Rat(IF neg THEN 0 - mag ELSE mag, 10 ^ Len(fp))

FractionDigits == 2

(***************************************************************************)
(* Strings of the Basic authentication scheme: characters, their codes,    *)
(* base64, split.  A value that may be undefined is a record with the flag *)
(* set.                                                                    *)
(***************************************************************************)
Unset == [set |-> FALSE, v |-> <<>>]

Def(s) == [set |-> TRUE, v |-> s]

Lower ==
    <<"a", "b", "c", "d", "e", "f", "g", "h", "i", "j", "k", "l", "m",
      "n", "o", "p", "q", "r", "s", "t", "u", "v", "w", "x", "y", "z">>

\* The character code of a colon or a lower-case letter.
CharCode(c) ==
    IF c = ":" THEN 58
    ELSE 96 + (CHOOSE k \in 1..26 : Lower[k] = c)

\* The character of a byte; a byte outside the colon and the lower-case
\* letters is shown as "?".
CharOf(n) ==
    IF n = 58 THEN ":"
    ELSE IF n >= 97 /\ n <= 122 THEN Lower[n - 96]
    ELSE "?"

Base64Alphabet ==
    <<"A", "B", "C", "D", "E", "F", "G", "H", "I", "J", "K", "L", "M",
      "N", "O", "P", "Q", "R", "S", "T", "U", "V", "W", "X", "Y", "Z">>
    \o Lower \o Digits \o <<"+", "/">>

SextetChar(n) == Base64Alphabet[n + 1]

IsSextetChar(c) == \E k \in 1..64 : Base64Alphabet[k] = c

SextetOf(c) == (CHOOSE k \in 1..64 : Base64Alphabet[k] = c) - 1

\* Buffer.from(text).toString('base64') of a sequence of bytes.
RECURSIVE Base64Encode(_)
Base64Encode(bytes) ==
    IF Len(bytes) = 0 THEN <<>>
    ELSE IF Len(bytes) = 1
    THEN <<SextetChar(bytes[1] \div 4), SextetChar((bytes[1] % 4) * 16),
           "=", "=">>
    ELSE IF Len(bytes) = 2
    THEN <<SextetChar(bytes[1] \div 4),
           SextetChar((bytes[1] % 4) * 16 + bytes[2] \div 16),
           SextetChar((bytes[2] % 16) * 4), "=">>
    ELSE <<SextetChar(bytes[1] \div 4),
           SextetChar((bytes[1] % 4) * 16 + bytes[2] \div 16),
           SextetChar((bytes[2] % 16) * 4 + bytes[3] \div 64),
           SextetChar(bytes[3] % 64)>>
         \o Base64Encode(SubSeq(bytes, 4, Len(bytes)))

\* The sextets of a base64 text: its characters up to the first "=", those
\* outside the alphabet left out.
RECURSIVE Sextets(_)
Sextets(s) ==
    IF s = <<>> \/ s[1] = "=" THEN <<>>
    ELSE IF IsSextetChar(s[1]) THEN <<SextetOf(s[1])>> \o Sextets(Tail(s))
    ELSE Sextets(Tail(s))

\* The bytes a sequence of sextets holds.
RECURSIVE SextetsToBytes(_)
SextetsToBytes(x) ==
    IF Len(x) < 2 THEN <<>>
    ELSE IF Len(x) = 2 THEN <<x[1] * 4 + x[2] \div 16>>
    ELSE IF Len(x) = 3
    THEN <<x[1] * 4 + x[2] \div 16, (x[2] % 16) * 16 + x[3] \div 4>>
    ELSE <<x[1] * 4 + x[2] \div 16, (x[2] % 16) * 16 + x[3] \div 4,
           (x[3] % 4) * 64 + x[4]>>
         \o SextetsToBytes(SubSeq(x, 5, Len(x)))

\* Buffer.from(text).toString('base64'), as a client encodes credentials.
ToBase64(text) ==
    Base64Encode([k \in 1..Len(text) |-> CharCode(text[k])])

\* Buffer.from(s, 'base64').toString().
FromBase64(s) ==
    LET bytes == SextetsToBytes(Sextets(s))
    IN  [k \in 1..Len(bytes) |-> CharOf(bytes[k])]

\* s.split(sep): the pieces of s between the occurrences of the character.
RECURSIVE Split(_, _)
Split(s, sep) ==
    IF \E k \in 1..Len(s) : s[k] = sep
    THEN LET p == CHOOSE k \in 1..Len(s) :
                      s[k] = sep /\ \A j \in 1..(k - 1) : s[j] # sep
         IN  <<SubSeq(s, 1, p - 1)>> \o Split(SubSeq(s, p + 1, Len(s)), sep)
    ELSE <<s>>

\* parts[k] of an array: undefined past its end.
At(parts, k) == IF k <= Len(parts) THEN Def(parts[k]) ELSE Unset

\* s.startsWith(prefix).
StartsWith(s, prefix) ==
    Len(s) >= Len(prefix) /\ SubSeq(s, 1, Len(prefix)) = prefix

\* process.env.X || dflt: undefined and '' give the default.
OrDefault(e, dflt) == IF e.set /\ e.v # <<>> THEN e.v ELSE dflt

(***************************************************************************)
(* The Basic authentication middleware: AuthMiddleware.use.  The response  *)
(* records what the middleware called on it: status 0, an empty header and *)
(* an empty body stand for "not set".                                      *)
(***************************************************************************)
BasicPrefix == <<"B", "a", "s", "i", "c", " ">>

Admin == <<"a", "d", "m", "i", "n">>

Challenge == "Basic realm=\"Restricted Area\""

ResUntouched ==
    [used |-> FALSE, status |-> 0, wwwAuthenticate |-> "", body |-> "",
     nextCalls |-> 0]

\* res.setHeader('WWW-Authenticate', ...); return res.status(401).send(body)
Deny(body) ==
    [used |-> TRUE, status |-> 401, wwwAuthenticate |-> Challenge,
     body |-> body, nextCalls |-> 0]

\* next()
PassThrough ==
    [used |-> TRUE, status |-> 0, wwwAuthenticate |-> "", body |-> "",
     nextCalls |-> 1]

\* Mutant: only a missing header is refused as unauthenticated.
useWithoutSchemeCheck(auth, env) ==
    IF ~auth.set \/ auth.v = <<>>
    THEN Deny("Authentication required")
    ELSE LET base64Credentials == At(Split(auth.v, " "), 2)
             parts == Split(FromBase64(base64Credentials.v), ":")
         IN  IF \/ At(parts, 1) # Def(OrDefault(env.user, Admin))
                \/ At(parts, 2) # Def(OrDefault(env.pass, Admin))
             THEN Deny("Invalid credentials")
             ELSE PassThrough

\* use(req, res, next), as what it does to res and next.
use(auth, env) ==
    IF ~auth.set \/ auth.v = <<>> \/ ~StartsWith(auth.v, BasicPrefix)
    THEN Deny("Authentication required")
    ELSE LET base64Credentials == At(Split(auth.v, " "), 2)
             parts == Split(FromBase64(base64Credentials.v), ":")
             username == At(parts, 1)
             password == At(parts, 2)
             validUsername == OrDefault(env.user, Admin)
             validPassword == OrDefault(env.pass, Admin)
         IN  IF username # Def(validUsername) \/ password # Def(validPassword)
             THEN Deny("Invalid credentials")
             ELSE PassThrough

\* All strings of at most n characters of the alphabet.
Strings(alphabet, n) == UNION {[1..k -> alphabet] : k \in 0..n}

\* The values of BASIC_AUTH_USER (no colon: a user-id has none) and of
\* BASIC_AUTH_PASS.
UserEnvs == {Unset} \cup {Def(u) : u \in Strings({"a"}, MaxSecretLen)}

PassEnvs == {Unset} \cup {Def(w) : w \in Strings({"a", ":"}, MaxSecretLen)}

\* The credential texts a client encodes.
Credentials ==
    Strings({"a", ":"}, MaxCredLen)
        \cup {Admin \o <<":">> \o Admin,
              <<"w", "r", "o", "n", "g", ":", "p", "a", "s", "s">>}

BasicHeader(c) == Def(BasicPrefix \o ToBase64(c))

\* The Authorization headers of the requests: none, empty, another scheme,
\* the scheme name alone or in lower case, and Basic credentials.
AuthHeaders ==
    {Unset, Def(<<>>),
     Def(<<"B", "e", "a", "r", "e", "r", " ", "a", "b", "c">>),
     Def(<<"B", "a", "s", "i", "c">>),
     Def(<<"b", "a", "s", "i", "c", " ">> \o ToBase64(Admin \o <<":">> \o Admin))}
        \cup {BasicHeader(c) : c \in Credentials}

(***************************************************************************)
(* The backend engine: AppService.calculator.                              *)
(***************************************************************************)
\* Mutant: the default arm throws instead of returning NaN.
calculatorDefaultThrows(dto) ==
    CASE dto.op = "+" -> Num(dto.a + dto.b)
      [] dto.op = "-" -> Num(dto.a - dto.b)
      [] dto.op = "*" -> Num(dto.a * dto.b)
      [] dto.op = "/" ->
             ToNumber(toFixed(JsDivide(dto.a, dto.b), FractionDigits))
      [] dto.op = "^" -> MathPow(dto.a, dto.b)
      [] OTHER -> Throw

\* Mutant: the operands of the subtraction are swapped.
calculatorMinusSwapped(dto) ==
    CASE dto.op = "+" -> Num(dto.a + dto.b)
      [] dto.op = "-" -> Num(dto.b - dto.a)
      [] dto.op = "*" -> Num(dto.a * dto.b)
      [] dto.op = "/" ->
             ToNumber(toFixed(JsDivide(dto.a, dto.b), FractionDigits))
      [] dto.op = "^" -> MathPow(dto.a, dto.b)
      [] OTHER -> NaN

calculator(dto) ==
    CASE dto.op = "+" -> Num(dto.a + dto.b)
      [] dto.op = "-" -> Num(dto.a - dto.b)
      [] dto.op = "*" -> Num(dto.a * dto.b)
      [] dto.op = "/" ->
             ToNumber(toFixed(JsDivide(dto.a, dto.b), FractionDigits))
      [] dto.op = "^" -> MathPow(dto.a, dto.b)
      [] OTHER -> NaN

\* Mutant: the operands are passed one by one, as the earlier controller
\* did; the service finds no op in its first argument.
calculationPositional(body) == calculator([body EXCEPT !.op = ""])

\* AppController.calculation(body): return this.appService.calculator(body).
calculation(body) == calculator(body)

(***************************************************************************)
(* The frontend engine: calculateLocally.                                  *)
(***************************************************************************)
\* Mutant: the '/' arm divides without looking at b.
localSwitchUnguarded(a, b, op) ==
    CASE op = "+" -> Num(a + b)
      [] op = "-" -> Num(a - b)
      [] op = "*" -> Num(a * b)
      [] op = "/" -> JsDivide(a, b)
      [] op = "^" -> MathPow(a, b)
      [] OTHER -> NaN

\* The switch of calculateLocally; none of its arms throws.
localSwitch(a, b, op) ==
    CASE op = "+" -> Num(a + b)
      [] op = "-" -> Num(a - b)
      [] op = "*" -> Num(a * b)
      [] op = "/" -> IF b = 0 THEN NaN ELSE JsDivide(a, b)
      [] op = "^" -> MathPow(a, b)
      [] OTHER -> NaN

\* Mutant: an unsupported operator throws and nothing catches it.
calculateLocallyThrowing(a, b, op) ==
    IF op \in {"+", "-", "*", "/", "^"} THEN localSwitch(a, b, op) ELSE Throw

\* The switch inside its try/catch: a throw becomes NaN.
calculateLocally(a, b, op) ==
    LET r == localSwitch(a, b, op)
    IN  IF r.kind = "throw" THEN NaN ELSE r

(***************************************************************************)
(* The frontend boundary: fetchCalculation.  The call is at "idle" before  *)
(* it is made, at "awaiting" while it waits for axios.post, and at "done"  *)
(* once its promise has settled.  events lists, in order, what the call    *)
(* did and what reached it: "post" (axios.post issued), "res2xx",          *)
(* "resOther" (the request resolved, by status), "rejected" (the request   *)
(* rejected), "log" and "warn" (the console messages), "local" (a call of  *)
(* calculateLocally).                                                      *)
(***************************************************************************)
Timeout == 3000

\* The value of an environment variable that is not set.
EnvUnset == "<unset>"

ApiUrls == {EnvUnset, "", "http://backend/calculation"}

\* An environment variable's value taken as a condition: undefined and the
\* empty string are false.
Truthy(v) == v # EnvUnset /\ v # ""

Statuses == {199, 200, 201, 299, 300, 404, 500}

Reasons == {"network", "timeout"}

NoRequest == [url |-> "", body |-> [a |-> 0, b |-> 0, op |-> ""], timeout |-> 0]

\* What the remote end may answer to a request: the backend engine's
\* result for the body, or a value unrelated to it.
RemoteData(body) == {calculator(body), Num(8), NaN}

CallIds == 1..MaxCalls

IdleCall ==
    [pc |-> "idle", a |-> 0, b |-> 0, op |-> "", settled |-> "pending",
     result |-> NotCalled, data |-> NotCalled, status |-> 0, reason |-> "",
     events |-> <<>>]

(***************************************************************************)
(* The state of the page: an operand field holds '' or a number; value is  *)
(* undefined until a result is shown; error is null or a message.          *)
(***************************************************************************)
EmptyField == [set |-> FALSE, v |-> 0]

Filled(n) == [set |-> TRUE, v |-> n]

Undefined == [kind |-> "undefined", n |-> 0, d |-> 1]

NoError == "<null>"

InitialPage ==
    [a |-> EmptyField, b |-> EmptyField, op |-> "+", value |-> Undefined,
     isCalculating |-> FALSE, error |-> NoError]

NoHandler ==
    [pc |-> "none", form |-> [a |-> EmptyField, b |-> EmptyField, op |-> ""]]

\* The promise settles: a return resolves it, a throw that leaves the
\* function rejects it.
Settle(c, r) ==
    [c EXCEPT !.pc = "done",
              !.settled = IF r.kind = "throw" THEN "rejected" ELSE "resolved",
              !.result = r]

\* Mutant: the catch block issues the request again and waits for it.
CatchBlockRetry(c) ==
    [c EXCEPT !.pc = "awaiting", !.events = @ \o <<"warn", "post">>]

\* Mutant: the catch block logs the error and throws it again.
CatchBlockRethrows(c) ==
    Settle([c EXCEPT !.events = @ \o <<"warn">>], Throw)

\* catch (err) { console.warn(...); return calculateLocally(a, b, op); }
CatchBlock(c) ==
    Settle([c EXCEPT !.events = @ \o <<"warn", "local">>],
           calculateLocally(c.a, c.b, c.op))

\* Mutant: a response outside 2xx is thrown to the caller.
FallbackBlockThrows(c) ==
    Settle([c EXCEPT !.events = @ \o <<"log">>], Throw)

\* console.log("Falling back ..."); return calculateLocally(a, b, op);
\* inside the try: a throw here is caught by the catch block.
FallbackBlock(c) ==
    LET c1 == [c EXCEPT !.events = @ \o <<"log", "local">>]
        r  == calculateLocally(c.a, c.b, c.op)
    IN  IF r.kind = "throw" THEN CatchBlock(c1) ELSE Settle(c1, r)

\* Mutant: the bounds of the status test are off by one.
OnResolvedOffByOne(c, status, data) ==
    IF status > 200 /\ status <= 300
    THEN Settle(c, data)
    ELSE FallbackBlock(c)

\* Mutant: the status is not looked at.
OnResolvedAnyStatus(c, status, data) == Settle(c, data)

\* Mutant: the remote value is kept only when the local engine agrees.
OnResolvedRevalidate(c, status, data) ==
    IF status >= 200 /\ status < 300 /\ data = calculateLocally(c.a, c.b, c.op)
    THEN Settle(c, data)
    ELSE FallbackBlock(c)

\* if (res.status >= 200 && res.status < 300) return res.data; then the
\* fallback.
OnResolved(c, status, data) ==
    IF status >= 200 /\ status < 300
    THEN Settle(c, data)
    ELSE FallbackBlock(c)

\* Mutant: the request is issued without looking at the environment.
FetchStartAlwaysPosts(a, b, op) ==
    /\ fc.pc = "idle"
    /\ net' = [url |-> apiUrl, body |-> [a |-> a, b |-> b, op |-> op],
               timeout |-> Timeout]
    /\ fc' = [fc EXCEPT !.a = a, !.b = b, !.op = op, !.pc = "awaiting",
                        !.events = @ \o <<"post">>]
    /\ UNCHANGED <<req, svcOut, locOut, ctlOut, apiUrl, concVars, authVars, pageVars>>

\* Mutant: the body carries the operands in the wrong order and the request
\* has no timeout.
FetchStartWrongRequest(a, b, op) ==
    /\ fc.pc = "idle"
    /\ LET c == [fc EXCEPT !.a = a, !.b = b, !.op = op]
       IN  IF Truthy(apiUrl)
           THEN /\ net' = [url |-> apiUrl,
                           body |-> [a |-> b, b |-> a, op |-> op],
                           timeout |-> 0]
                /\ fc' = [c EXCEPT !.pc = "awaiting", !.events = @ \o <<"post">>]
           ELSE /\ net' = net
                /\ fc' = FallbackBlock(c)
    /\ UNCHANGED <<req, svcOut, locOut, ctlOut, apiUrl, concVars, authVars, pageVars>>

\* fetchCalculation(a, b, op) up to its first await.
FetchStart(a, b, op) ==
    /\ fc.pc = "idle"
    /\ LET c == [fc EXCEPT !.a = a, !.b = b, !.op = op]
       IN  IF Truthy(apiUrl)
           THEN /\ net' = [url |-> apiUrl,
                           body |-> [a |-> a, b |-> b, op |-> op],
                           timeout |-> Timeout]
                /\ fc' = [c EXCEPT !.pc = "awaiting", !.events = @ \o <<"post">>]
           ELSE /\ net' = net
                /\ fc' = FallbackBlock(c)
    /\ UNCHANGED <<req, svcOut, locOut, ctlOut, apiUrl, concVars, authVars, pageVars>>

\* The awaited request resolves with a response {status, data}.
RemoteResolve(status, data) ==
    /\ fc.pc = "awaiting"
    /\ net # NoRequest
    /\ LET ev == IF status >= 200 /\ status < 300 THEN "res2xx" ELSE "resOther"
           c  == [fc EXCEPT !.status = status, !.data = data,
                            !.events = @ \o <<ev>>]
       IN  fc' = OnResolved(c, status, data)
    /\ net' = NoRequest
    /\ UNCHANGED <<req, svcOut, locOut, ctlOut, apiUrl, concVars, authVars, pageVars>>

\* The awaited request rejects: a network error, or the timeout expired.
RemoteReject(reason) ==
    /\ fc.pc = "awaiting"
    /\ net # NoRequest
    /\ fc' = CatchBlock([fc EXCEPT !.reason = reason,
                                   !.events = @ \o <<"rejected">>])
    /\ net' = NoRequest
    /\ UNCHANGED <<req, svcOut, locOut, ctlOut, apiUrl, concVars, authVars, pageVars>>

Init ==
    /\ req = [a |-> 0, b |-> 0, op |-> ""]
    /\ svcOut = NotCalled
    /\ locOut = NotCalled
    /\ ctlOut = NotCalled
    /\ apiUrl \in ApiUrls
    /\ fc = IdleCall
    /\ net = NoRequest
    /\ calls = [i \in CallIds |-> IdleCall]
    /\ nets = [i \in CallIds |-> NoRequest]
    /\ authEnv = [user |-> Unset, pass |-> Unset]
    /\ authReq = Unset
    /\ authRes = ResUntouched
    /\ page = InitialPage
    /\ handlers = [i \in CallIds |-> NoHandler]

Next ==
    \/ \E a \in Operands, b \in Operands, op \in Ops : FetchStart(a, b, op)
    \/ \E status \in Statuses : \E data \in RemoteData(net.body) :
           RemoteResolve(status, data)
    \/ \E reason \in Reasons : RemoteReject(reason)

Spec == Init /\ [][Next]_vars

\* The timeout of the request expires: axios rejects a request that is
\* still pending after its timeout.
TimeoutExpires == RemoteReject("timeout")

\* Spec with the guarantee the timeout gives: a request does not stay
\* pending for ever.
LiveSpec == Spec /\ WF_vars(TimeoutExpires)

(***************************************************************************)
(* Several fetchCalculation calls in flight at once.  Each call of the     *)
(* async function has its own parameters a, b, op and its own awaited      *)
(* request; the module has no variable of its own.                         *)
(***************************************************************************)
\* The argument triples, statuses and response values of concurrent calls.
ConcTriples ==
    {[a |-> 1, b |-> 3, op |-> "/"], [a |-> 5, b |-> 0, op |-> "/"],
     [a |-> 2, b |-> 3, op |-> "+"]}

ConcStatuses == {201, 500}

ConcData(body) == {calculator(body), Num(8)}

\* Mutant: a, b and op are kept in variables of the module, which every
\* call overwrites: a continuation sees the arguments of the latest call.
SharedFrame(cs, i) ==
    LET started == {j \in CallIds : cs[j].pc # "idle"}
        last    == CHOOSE j \in started : \A k \in started : k <= j
    IN  [cs[i] EXCEPT !.a = cs[last].a, !.b = cs[last].b, !.op = cs[last].op]

\* The parameters and locals the continuation of call i runs on: its own.
OwnFrame(cs, i) == cs[i]

\* Call i of fetchCalculation(t.a, t.b, t.op) up to its first await.
StartCall(i, t) ==
    /\ calls[i].pc = "idle"
    /\ LET c == [calls[i] EXCEPT !.a = t.a, !.b = t.b, !.op = t.op]
       IN  IF Truthy(apiUrl)
           THEN /\ nets' = [nets EXCEPT ![i] =
                               [url |-> apiUrl, body |-> t, timeout |-> Timeout]]
                /\ calls' = [calls EXCEPT ![i] =
                               [c EXCEPT !.pc = "awaiting",
                                         !.events = @ \o <<"post">>]]
           ELSE /\ nets' = nets
                /\ calls' = [calls EXCEPT ![i] = FallbackBlock(c)]

ConcStart(i, t) ==
    /\ StartCall(i, t)
    /\ UNCHANGED <<req, svcOut, locOut, ctlOut, apiUrl, fc, net, authVars, pageVars>>

ConcResolve(i, status, data) ==
    /\ calls[i].pc = "awaiting"
    /\ nets[i] # NoRequest
    /\ LET ev == IF status >= 200 /\ status < 300 THEN "res2xx" ELSE "resOther"
           c  == [OwnFrame(calls, i) EXCEPT !.status = status, !.data = data,
                                           !.events = @ \o <<ev>>]
       IN  calls' = [calls EXCEPT ![i] = OnResolved(c, status, data)]
    /\ nets' = [nets EXCEPT ![i] = NoRequest]
    /\ UNCHANGED <<req, svcOut, locOut, ctlOut, apiUrl, fc, net, authVars, pageVars>>

ConcReject(i, reason) ==
    /\ calls[i].pc = "awaiting"
    /\ nets[i] # NoRequest
    /\ calls' = [calls EXCEPT ![i] =
                    CatchBlock([OwnFrame(calls, i) EXCEPT
                                    !.reason = reason,
                                    !.events = @ \o <<"rejected">>])]
    /\ nets' = [nets EXCEPT ![i] = NoRequest]
    /\ UNCHANGED <<req, svcOut, locOut, ctlOut, apiUrl, fc, net, authVars, pageVars>>

ConcNext ==
    \/ \E i \in CallIds, t \in ConcTriples : ConcStart(i, t)
    \/ \E i \in CallIds, status \in ConcStatuses :
           \E data \in ConcData(nets[i].body) : ConcResolve(i, status, data)
    \/ \E i \in CallIds, reason \in Reasons : ConcReject(i, reason)

ConcSpec == Init /\ [][ConcNext]_vars

(***************************************************************************)
(* The page: the Home component.  Each action is one event handler run to  *)
(* its end or to its await, with the render that follows it.               *)
(***************************************************************************)
PageTexts == {<<>>, <<"0">>, <<"3">>}

PageOps == {"+", "/"}

PageCalls == 1..MaxSubmits

PageStatuses == {201, 500}

PageData == {Num(8)}

EnterBothValues == "Please enter both values"

CalculationError == "An error occurred during calculation"

\* parseFloat(s) of the text of a number input: an optional sign and digits.
ParseFloat(s) ==
    IF s[1] = "-" THEN 0 - DigitsToInt(Tail(s)) ELSE DigitsToInt(s)

\* handleInputChange(setter, value) of the field a or b.
InputChange(field, text) ==
    /\ page' = [page EXCEPT
                   ![field] = IF text = <<>> THEN EmptyField
                              ELSE Filled(ParseFloat(text)),
                   !.error = NoError]
    /\ UNCHANGED <<req, svcOut, locOut, ctlOut, apiUrl, fc, net, concVars, authVars,
                   handlers>>

\* onChange of the select: setOp(e.target.value).
SetOp(op) ==
    /\ page' = [page EXCEPT !.op = op]
    /\ UNCHANGED <<req, svcOut, locOut, ctlOut, apiUrl, fc, net, concVars, authVars,
                   handlers>>

\* The call the next invocation of the handler makes.
NextCall == CHOOSE i \in CallIds : handlers[i].pc = "none" /\
                \A j \in 1..(i - 1) : handlers[j].pc # "none"

\* Mutant: the operands are not checked before the call.
onClickCalculateUnchecked(ids) ==
    /\ \E i \in ids : handlers[i].pc = "none"
    /\ LET i == NextCall
           t == [a |-> page.a.v, b |-> page.b.v, op |-> page.op]
       IN  /\ page' = [page EXCEPT !.isCalculating = TRUE, !.error = NoError]
           /\ StartCall(i, t)
           /\ handlers' = [handlers EXCEPT ![i] =
                  [pc |-> "awaiting",
                   form |-> [a |-> page.a, b |-> page.b, op |-> page.op]]]
    /\ UNCHANGED <<req, svcOut, locOut, ctlOut, apiUrl, fc, net, authVars>>

\* Mutant: the validation tests the operands for falsiness, so 0 is taken
\* for a missing operand.
onClickCalculateFalsy(ids) ==
    IF \/ page.a = EmptyField \/ page.a = Filled(0)
       \/ page.b = EmptyField \/ page.b = Filled(0)
    THEN /\ page' = [page EXCEPT !.error = EnterBothValues]
         /\ UNCHANGED <<req, svcOut, locOut, ctlOut, apiUrl, fc, net, concVars,
                        authVars, handlers>>
    ELSE /\ \E i \in ids : handlers[i].pc = "none"
         /\ LET i == NextCall
                t == [a |-> page.a.v, b |-> page.b.v, op |-> page.op]
            IN  /\ page' = [page EXCEPT !.isCalculating = TRUE,
                                        !.error = NoError]
                /\ StartCall(i, t)
                /\ handlers' = [handlers EXCEPT ![i] =
                       [pc |-> "awaiting",
                        form |-> [a |-> page.a, b |-> page.b, op |-> page.op]]]
         /\ UNCHANGED <<req, svcOut, locOut, ctlOut, apiUrl, fc, net, authVars>>

\* Mutant: the call is made with the operands in the wrong order.
onClickCalculateSwapped(ids) ==
    IF page.a = EmptyField \/ page.b = EmptyField
    THEN /\ page' = [page EXCEPT !.error = EnterBothValues]
         /\ UNCHANGED <<req, svcOut, locOut, ctlOut, apiUrl, fc, net, concVars,
                        authVars, handlers>>
    ELSE /\ \E i \in ids : handlers[i].pc = "none"
         /\ LET i == NextCall
                t == [a |-> page.b.v, b |-> page.a.v, op |-> page.op]
            IN  /\ page' = [page EXCEPT !.isCalculating = TRUE,
                                        !.error = NoError]
                /\ StartCall(i, t)
                /\ handlers' = [handlers EXCEPT ![i] =
                       [pc |-> "awaiting",
                        form |-> [a |-> page.a, b |-> page.b, op |-> page.op]]]
         /\ UNCHANGED <<req, svcOut, locOut, ctlOut, apiUrl, fc, net, authVars>>

\* onClickCalculate up to its await: the validation, then
\* setIsCalculating(true), setError(null) and the call
\* fetchCalculation(Number(a), Number(b), op).  ids are the calls the
\* handler may still make.
onClickCalculate(ids) ==
    IF page.a = EmptyField \/ page.b = EmptyField
    THEN /\ page' = [page EXCEPT !.error = EnterBothValues]
         /\ UNCHANGED <<req, svcOut, locOut, ctlOut, apiUrl, fc, net, concVars,
                        authVars, handlers>>
    ELSE /\ \E i \in ids : handlers[i].pc = "none"
         /\ LET i == NextCall
                t == [a |-> page.a.v, b |-> page.b.v, op |-> page.op]
            IN  /\ page' = [page EXCEPT !.isCalculating = TRUE,
                                        !.error = NoError]
                /\ StartCall(i, t)
                /\ handlers' = [handlers EXCEPT ![i] =
                       [pc |-> "awaiting",
                        form |-> [a |-> page.a, b |-> page.b, op |-> page.op]]]
         /\ UNCHANGED <<req, svcOut, locOut, ctlOut, apiUrl, fc, net, authVars>>

\* A click on the button, which is disabled while isCalculating.
ClickSubmit(ids) ==
    /\ ~page.isCalculating
    /\ onClickCalculate(ids)

\* The Enter key: the keydown listener calls the handler of the last render.
PressEnter(ids) == onClickCalculate(ids)

\* Mutant: the flag is put back in the catch only.
ResumeHandlerNoFinally(i) ==
    /\ handlers[i].pc = "awaiting"
    /\ calls[i].pc = "done"
    /\ page' = IF calls[i].settled = "resolved"
               THEN [page EXCEPT !.value = calls[i].result]
               ELSE [page EXCEPT !.error = CalculationError,
                                 !.isCalculating = FALSE]
    /\ handlers' = [handlers EXCEPT ![i].pc = "finished"]
    /\ UNCHANGED <<req, svcOut, locOut, ctlOut, apiUrl, fc, net, concVars,
                   authVars>>

\* onClickCalculate after its await: setValue(result), or the catch, then
\* the finally.
ResumeHandler(i) ==
    /\ handlers[i].pc = "awaiting"
    /\ calls[i].pc = "done"
    /\ page' = IF calls[i].settled = "resolved"
               THEN [page EXCEPT !.value = calls[i].result,
                                 !.isCalculating = FALSE]
               ELSE [page EXCEPT !.error = CalculationError,
                                 !.isCalculating = FALSE]
    /\ handlers' = [handlers EXCEPT ![i].pc = "finished"]
    /\ UNCHANGED <<req, svcOut, locOut, ctlOut, apiUrl, fc, net, concVars, authVars>>

\* No continuation is waiting to run.  A continuation is a microtask: once
\* the promise it awaits has settled it runs before the next event, user's
\* or network's, is delivered.
MicrotasksDrained ==
    \A i \in CallIds : ~(handlers[i].pc = "awaiting" /\ calls[i].pc = "done")

\* The timeout of the request of call i expires.
CallTimeoutExpires(i) == MicrotasksDrained /\ ConcReject(i, "timeout")

PageNext ==
    \/ /\ MicrotasksDrained
       /\ \E field \in {"a", "b"}, text \in PageTexts :
              InputChange(field, text)
    \/ MicrotasksDrained /\ \E op \in PageOps : SetOp(op)
    \/ MicrotasksDrained /\ ClickSubmit(PageCalls)
    \/ MicrotasksDrained /\ PressEnter(PageCalls)
    \/ /\ MicrotasksDrained
       /\ \E i \in PageCalls, status \in PageStatuses, data \in PageData :
              ConcResolve(i, status, data)
    \/ MicrotasksDrained /\ \E i \in PageCalls : ConcReject(i, "network")
    \/ \E i \in PageCalls : CallTimeoutExpires(i)
    \/ \E i \in PageCalls : ResumeHandler(i)

PageSpec == Init /\ [][PageNext]_vars

\* PageSpec with the guarantees of the platform: a request ends at the
\* latest when its timeout expires, and a settled promise resumes the
\* handler that awaits it.
PageLiveSpec ==
    /\ PageSpec
    /\ \A i \in PageCalls : WF_vars(CallTimeoutExpires(i))
    /\ \A i \in PageCalls : WF_vars(ResumeHandler(i))

(***************************************************************************)
(* The page with submits that overlap: the handler may run again before    *)
(* the call of an earlier run has come back.                               *)
(***************************************************************************)
OverlapCalls == 1..MaxOverlap

OverlapNext ==
    \/ /\ MicrotasksDrained
       /\ \E field \in {"a", "b"}, text \in PageTexts :
              InputChange(field, text)
    \/ MicrotasksDrained /\ \E op \in PageOps : SetOp(op)
    \/ MicrotasksDrained /\ ClickSubmit(OverlapCalls)
    \/ MicrotasksDrained /\ PressEnter(OverlapCalls)
    \/ /\ MicrotasksDrained
       /\ \E i \in OverlapCalls, status \in PageStatuses, data \in PageData :
              ConcResolve(i, status, data)
    \/ MicrotasksDrained /\ \E i \in OverlapCalls : ConcReject(i, "network")
    \/ \E i \in OverlapCalls : CallTimeoutExpires(i)
    \/ \E i \in OverlapCalls : ResumeHandler(i)

OverlapSpec == Init /\ [][OverlapNext]_vars

(***************************************************************************)
(* The middleware applied to one request.                                  *)
(***************************************************************************)
AuthUse(auth) ==
    /\ ~authRes.used
    /\ authReq' = auth
    /\ authRes' = use(auth, authEnv)
    /\ UNCHANGED <<req, svcOut, locOut, ctlOut, apiUrl, fc, net, concVars, authEnv, pageVars>>

AuthInit ==
    /\ req = [a |-> 0, b |-> 0, op |-> ""]
    /\ svcOut = NotCalled
    /\ locOut = NotCalled
    /\ ctlOut = NotCalled
    /\ apiUrl = EnvUnset
    /\ fc = IdleCall
    /\ net = NoRequest
    /\ calls = [i \in CallIds |-> IdleCall]
    /\ nets = [i \in CallIds |-> NoRequest]
    /\ authEnv \in [user : UserEnvs, pass : PassEnvs]
    /\ authReq = Unset
    /\ authRes = ResUntouched
    /\ page = InitialPage
    /\ handlers = [i \in CallIds |-> NoHandler]

AuthNext == \E auth \in AuthHeaders : AuthUse(auth)

AuthSpec == AuthInit /\ [][AuthNext]_vars

(***************************************************************************)
(* The engines applied to one triple.                                      *)
(***************************************************************************)
CallCalculator ==
    /\ svcOut = NotCalled
    /\ svcOut' = calculator(req)
    /\ UNCHANGED <<req, locOut, ctlOut, apiUrl, fc, net, concVars, authVars,
                   pageVars>>

CallCalculateLocally ==
    /\ locOut = NotCalled
    /\ locOut' = calculateLocally(req.a, req.b, req.op)
    /\ UNCHANGED <<req, svcOut, ctlOut, apiUrl, fc, net, concVars, authVars,
                   pageVars>>

CallCalculation ==
    /\ ctlOut = NotCalled
    /\ ctlOut' = calculation(req)
    /\ UNCHANGED <<req, svcOut, locOut, apiUrl, fc, net, concVars, authVars,
                   pageVars>>

EngineInit ==
    /\ req \in [a : Operands, b : Operands, op : Ops]
    /\ svcOut = NotCalled
    /\ locOut = NotCalled
    /\ ctlOut = NotCalled
    /\ apiUrl = ""
    /\ fc = IdleCall
    /\ net = NoRequest
    /\ calls = [i \in CallIds |-> IdleCall]
    /\ nets = [i \in CallIds |-> NoRequest]
    /\ authEnv = [user |-> Unset, pass |-> Unset]
    /\ authReq = Unset
    /\ authRes = ResUntouched
    /\ page = InitialPage
    /\ handlers = [i \in CallIds |-> NoHandler]

EngineNext == CallCalculator \/ CallCalculateLocally \/ CallCalculation

EngineSpec == EngineInit /\ [][EngineNext]_vars

(***************************************************************************)
(* Properties of fetchCalculation, checked under Spec.                     *)
(***************************************************************************)
Has(ev) == \E i \in 1..Len(fc.events) : fc.events[i] = ev

Count(ev) == Cardinality({i \in 1..Len(fc.events) : fc.events[i] = ev})

Configured == Truthy(apiUrl)

RemoteFailed == Has("rejected") \/ Has("resOther")

\* C1: with an endpoint configured, when the single remote call fails (the
\* request rejects, or resolves with a status outside 200..299), the call
\* resolves to calculateLocally(a, b, op) of its own arguments.
FallbackEqualsLocal ==
    (fc.pc = "done" /\ Configured /\ RemoteFailed)
        => /\ fc.settled = "resolved"
           /\ fc.result = calculateLocally(fc.a, fc.b, fc.op)

\* C1 case: 5 / 0 with the request answered 500; the call resolves to the
\* local engine's NaN, not to the answer's data.
FallbackEqualsLocalWitness ==
    /\ fc.pc = "done" /\ Configured /\ Has("resOther")
    /\ fc.a = 5 /\ fc.b = 0 /\ fc.op = "/" /\ fc.status = 500
    /\ fc.data = Inf(1)
    /\ fc.settled = "resolved" /\ fc.result = NaN

\* C2: with an endpoint configured, when the request resolves with a 2xx
\* status the call resolves to the response's data unchanged, whatever the
\* local engine would compute, and calculateLocally is not called.
SuccessReturnsRemoteData ==
    (fc.pc = "done" /\ Configured /\ Has("res2xx"))
        => /\ fc.settled = "resolved"
           /\ fc.result = fc.data
           /\ ~Has("local")

\* C2 case: 2 / 3 answered 201 with data 8, which the local engine would
\* not compute.
SuccessReturnsRemoteDataWitness ==
    /\ fc.pc = "done" /\ Configured /\ Has("res2xx")
    /\ fc.a = 2 /\ fc.b = 3 /\ fc.op = "/" /\ fc.status = 201
    /\ fc.result = Num(8)
    /\ fc.result # calculateLocally(fc.a, fc.b, fc.op)

\* C3: a call makes at most one remote attempt and at most one local
\* computation; a local computation comes only after the remote attempt
\* failed, or with no endpoint configured; no request is issued after a
\* failure.
AtMostOneRemoteThenOneLocal ==
    /\ Count("post") <= 1
    /\ Count("local") <= 1
    /\ \A i \in 1..Len(fc.events) :
           fc.events[i] = "local" =>
               \/ ~Configured /\ ~Has("post")
               \/ \E j \in 1..(i - 1) : fc.events[j] \in {"rejected", "resOther"}
    /\ \A i \in 1..Len(fc.events) :
           fc.events[i] = "post" =>
               ~\E j \in 1..(i - 1) : fc.events[j] \in {"rejected", "resOther"}

\* C3 case: one request, rejected, then one local computation.
AtMostOneRemoteThenOneLocalWitness ==
    /\ fc.pc = "done"
    /\ fc.reason = "network"
    /\ fc.events = <<"post", "rejected", "warn", "local">>

\* C4: the call never rejects: whatever the arguments, the endpoint
\* configuration and the remote outcome, a settled call is resolved with a
\* value.
NeverRejects ==
    /\ fc.settled # "rejected"
    /\ fc.pc = "done" =>
           /\ fc.settled = "resolved"
           /\ fc.result.kind \in {"num", "nan", "inf"}

\* C4 case: an unsupported operator and a timed-out request; the call
\* resolves with NaN.
NeverRejectsWitness ==
    /\ fc.pc = "done" /\ Has("rejected") /\ fc.reason = "timeout"
    /\ fc.op = "%"
    /\ fc.settled = "resolved" /\ fc.result = NaN

\* C11: with no endpoint configured (the variable unset or empty) the call
\* issues no request at all and resolves to calculateLocally(a, b, op).
NoEndpointNoRequest ==
    ~Configured =>
        /\ net = NoRequest
        /\ ~Has("post")
        /\ fc.pc # "awaiting"
        /\ fc.pc = "done" =>
               /\ fc.settled = "resolved"
               /\ fc.result = calculateLocally(fc.a, fc.b, fc.op)

\* C11 case: the variable is unset and 5 + 3 resolves to 8 after the one
\* console message and the one local computation.
NoEndpointNoRequestWitness ==
    /\ apiUrl = EnvUnset /\ fc.pc = "done"
    /\ fc.a = 5 /\ fc.b = 3 /\ fc.op = "+"
    /\ fc.events = <<"log", "local">>
    /\ fc.result = Num(8)

\* C12: with an endpoint configured, a call issues exactly one POST, to
\* that endpoint, with the caller's triple {a, b, op} as body and a timeout
\* of 3000 ms.
ExactlyOnePostOfTheTriple ==
    (Configured /\ fc.pc # "idle") =>
        /\ Count("post") = 1
        /\ fc.pc = "awaiting" =>
               /\ net.url = apiUrl
               /\ net.body = [a |-> fc.a, b |-> fc.b, op |-> fc.op]
               /\ net.timeout = 3000

\* C12 case: the request of 5 - 3 in flight.
ExactlyOnePostOfTheTripleWitness ==
    /\ Configured /\ fc.pc = "awaiting"
    /\ net = [url |-> apiUrl, body |-> [a |-> 5, b |-> 3, op |-> "-"],
              timeout |-> 3000]

\* C13 (under LiveSpec): a call that waits for its request eventually
\* completes with a result, and a request that timed out leaves the call
\* resolved to the local result, not rejected.
CallEventuallyCompletes ==
    /\ (fc.pc = "awaiting") ~> (fc.pc = "done" /\ fc.settled = "resolved")
    /\ [](fc.reason = "timeout" =>
              /\ fc.pc = "done"
              /\ fc.settled = "resolved"
              /\ fc.result = calculateLocally(fc.a, fc.b, fc.op))

\* C13 case: the request of 7 * 2 timed out and the call resolved to 14.
CallEventuallyCompletesWitness ==
    /\ fc.pc = "done" /\ fc.reason = "timeout"
    /\ fc.a = 7 /\ fc.b = 2 /\ fc.op = "*"
    /\ fc.settled = "resolved" /\ fc.result = Num(14)

Responded == Has("res2xx") \/ Has("resOther")

\* C22: the call returns the remote value if and only if an endpoint is
\* configured, the request resolves, and the status s of the response
\* satisfies 200 <= s < 300; in every other case (no endpoint, rejection,
\* a response with status 199 or 300 and beyond) the result is the value of
\* the local engine, computed once.
RemoteIffConfiguredAnd2xx ==
    fc.pc = "done" =>
        IF Configured /\ Responded /\ fc.status >= 200 /\ fc.status < 300
        THEN fc.result = fc.data /\ Count("local") = 0
        ELSE /\ fc.result = calculateLocally(fc.a, fc.b, fc.op)
             /\ Count("local") = 1

\* C22 case: 2 / 3 answered 300 with data 8; the call returns the local
\* 0.666..., not the 8 of the response.
RemoteIffConfiguredAnd2xxWitness ==
    /\ fc.pc = "done" /\ Configured /\ Responded
    /\ fc.a = 2 /\ fc.b = 3 /\ fc.op = "/"
    /\ fc.status = 300 /\ fc.data = Num(8)
    /\ fc.result = Rat(2, 3)

(***************************************************************************)
(* Properties of concurrent calls, checked under ConcSpec.                 *)
(***************************************************************************)
CallHas(i, ev) == \E k \in 1..Len(calls[i].events) : calls[i].events[k] = ev

EventOf(c, ev) == \E k \in 1..Len(c.events) : c.events[k] = ev

\* C14: under every interleaving of the calls in flight, a step of one call
\* changes no other call and no other request, the arguments of a started
\* call never change, its request carries them, and when it completes it
\* resolves to the data of its own 2xx response or else to the local
\* result for its own (a, b, op).
CallsAreIndependent ==
    [][\A i \in CallIds :
          /\ calls[i].pc # "idle" =>
                 /\ calls'[i].a = calls[i].a
                 /\ calls'[i].b = calls[i].b
                 /\ calls'[i].op = calls[i].op
          /\ calls'[i].pc = "awaiting" =>
                 nets'[i].body = [a |-> calls'[i].a, b |-> calls'[i].b,
                                  op |-> calls'[i].op]
          /\ (calls[i].pc = "awaiting" /\ calls'[i].pc = "done") =>
                 /\ calls'[i].settled = "resolved"
                 /\ calls'[i].result =
                        IF EventOf(calls'[i], "res2xx")
                        THEN calls'[i].data
                        ELSE calculateLocally(calls[i].a, calls[i].b,
                                              calls[i].op)
          /\ calls'[i] # calls[i] =>
                 \A j \in CallIds \ {i} :
                     calls'[j] = calls[j] /\ nets'[j] = nets[j]]_vars

\* C14 case: call 1 (1 / 3) fell back on a rejection and call 2 (2 + 3) was
\* answered 8; each has its own result.
CallsAreIndependentWitness ==
    /\ calls[1].pc = "done" /\ calls[2].pc = "done"
    /\ calls[1].a = 1 /\ calls[1].b = 3 /\ calls[1].op = "/"
    /\ calls[2].a = 2 /\ calls[2].b = 3 /\ calls[2].op = "+"
    /\ CallHas(1, "rejected") /\ calls[1].result = Rat(1, 3)
    /\ CallHas(2, "res2xx") /\ calls[2].result = Num(8)

(***************************************************************************)
(* Properties of the middleware, checked under AuthSpec.                   *)
(***************************************************************************)
\* The text 'username:password' of the configured pair.
ValidCredentials ==
    OrDefault(authEnv.user, Admin) \o <<":">> \o OrDefault(authEnv.pass, Admin)

Denied ==
    /\ authRes.status = 401
    /\ authRes.wwwAuthenticate = Challenge
    /\ authRes.nextCalls = 0

\* C16: a request whose Basic credentials are not the configured
\* 'username:password' gets 401 with the challenge header, and next() is
\* not called; passwords with a ':' included.
WrongCredentialsDenied ==
    \A c \in Credentials :
        (authRes.used /\ authReq = BasicHeader(c) /\ c # ValidCredentials)
            => Denied

\* C17: a request whose header is 'Basic ' and the base64 of exactly the
\* configured 'username:password' is passed through: next() is called once
\* and the response is not touched; configured passwords with a ':'
\* included.
RightCredentialsPass ==
    (authRes.used /\ authReq = BasicHeader(ValidCredentials))
        => authRes = PassThrough

\* C18: a request with no Authorization header, or with one that does not
\* start with 'Basic ', gets 401 with the body 'Authentication required'
\* and the challenge header, and next() is not called.
MissingSchemeDenied ==
    (authRes.used /\ (~authReq.set \/ ~StartsWith(authReq.v, BasicPrefix)))
        => /\ Denied
           /\ authRes.body = "Authentication required"

\* C18 case: a Bearer token is refused as unauthenticated.
MissingSchemeDeniedWitness ==
    /\ authRes.used
    /\ authReq = Def(<<"B", "e", "a", "r", "e", "r", " ", "a", "b", "c">>)
    /\ authRes = Deny("Authentication required")

(***************************************************************************)
(* Properties of the page, checked under PageSpec and PageLiveSpec.        *)
(***************************************************************************)
InFlight == {i \in CallIds : handlers[i].pc = "awaiting"}

Started == {i \in CallIds : handlers[i].pc # "none"}

OperandMissing == page.a = EmptyField \/ page.b = EmptyField

\* C19: when the submit handler runs while either operand field is empty,
\* it sets the error 'Please enter both values', does not call
\* fetchCalculation (no call starts, no request is sent, no handler waits)
\* and leaves the displayed value and the isCalculating flag unchanged.
EmptyOperandIsRefused ==
    [][(onClickCalculate(PageCalls) /\ OperandMissing) =>
          /\ page'.error = EnterBothValues
          /\ page'.value = page.value
          /\ page'.isCalculating = page.isCalculating
          /\ calls' = calls
          /\ nets' = nets
          /\ handlers' = handlers]_vars

\* C19 case: submitted with a = 3 and b empty; the message is shown, nothing
\* was called and nothing else on the page changed.
EmptyOperandIsRefusedWitness ==
    /\ page.error = EnterBothValues
    /\ page.a = Filled(3)
    /\ page.b = EmptyField
    /\ page.value = Undefined
    /\ ~page.isCalculating
    /\ \A i \in CallIds : calls[i].pc = "idle" /\ handlers[i].pc = "none"

OnlyOneSubmit == \A i \in CallIds \ {1} : handlers[i].pc = "none"

\* The page shows what the call made for the form of the submit returned.
ShowsResultOfForm ==
    /\ handlers[1].pc = "finished"
    /\ calls[1].a = handlers[1].form.a.v
    /\ calls[1].b = handlers[1].form.b.v
    /\ calls[1].op = handlers[1].form.op
    /\ calls[1].settled = "resolved"
    /\ page.value = calls[1].result

\* C20 (under PageLiveSpec): when both operands are filled in and the user
\* submits once, the displayed value eventually becomes, and stays, the
\* value fetchCalculation returned for the operands and the operator that
\* were in the form at the time of the submit.
SubmitShowsResult ==
    ([]OnlyOneSubmit) =>
        ((handlers[1].pc = "awaiting") ~> []ShowsResultOfForm)

\* C20 case: 0 / 3 was submitted, the form was changed to 3 / 3 while the
\* request was in flight, the request was answered 500, and the page shows
\* 0.
SubmitShowsResultWitness ==
    /\ ShowsResultOfForm
    /\ handlers[1].form = [a |-> Filled(0), b |-> Filled(3), op |-> "/"]
    /\ page.a = Filled(3)
    /\ calls[1].status = 500
    /\ page.value = Num(0)

\* Handler i runs its continuation in this step.
Resumes(i) == handlers[i].pc = "awaiting" /\ handlers'[i].pc = "finished"

\* C21: for every remote outcome (success, non-2xx, network error, timeout)
\* a submit with both operands present ends by setting the displayed value
\* to the result of its call, and the error 'An error occurred during
\* calculation' is never set.
TransportFailureNotShown ==
    /\ [](page.error # CalculationError)
    /\ [][\A i \in CallIds :
             Resumes(i) => /\ calls[i].settled = "resolved"
                           /\ page'.value = calls[i].result
                           /\ page'.error = page.error]_vars

\* C21 case: 3 + 3 was submitted, the request timed out, and the page shows
\* 6 and no error.
TransportFailureNotShownWitness ==
    /\ handlers[1].pc = "finished"
    /\ handlers[1].form = [a |-> Filled(3), b |-> Filled(3), op |-> "+"]
    /\ calls[1].reason = "timeout"
    /\ page.value = Num(6)
    /\ page.error = NoError

\* Handler i starts its call in this step.
Submits(i) == handlers[i].pc = "none" /\ handlers'[i].pc = "awaiting"

\* C27 (under PageLiveSpec): a submit that passes the validation sets
\* isCalculating to true; its call settles and the handler then sets the
\* flag back to false; and whenever no calculation is in flight the flag
\* is false.
FlagFollowsCalculation ==
    /\ [](InFlight = {} => ~page.isCalculating)
    /\ [][\A i \in CallIds :
             /\ Submits(i) => page'.isCalculating
             /\ Resumes(i) => ~page'.isCalculating]_vars
    /\ \A i \in CallIds :
           (handlers[i].pc = "awaiting") ~> (handlers[i].pc = "finished")

\* C27 case: the request of the submit failed on the network, the handler
\* came back and the flag is false again.
FlagFollowsCalculationWitness ==
    /\ handlers[1].pc = "finished"
    /\ calls[1].reason = "network"
    /\ ~page.isCalculating

\* C28: the validation rejects a submit exactly when an operand field is
\* the empty string.  An operand equal to 0 counts as present: the submit
\* calls fetchCalculation with the operands of the form, 0 included, and
\* sets no 'Please enter both values'.
ZeroCountsAsPresent ==
    [][onClickCalculate(PageCalls) =>
          IF OperandMissing
          THEN /\ page'.error = EnterBothValues
               /\ handlers' = handlers
          ELSE /\ page'.error = NoError
               /\ \E i \in CallIds :
                      /\ Submits(i)
                      /\ calls'[i].pc # "idle"
                      /\ calls'[i].a = page.a.v
                      /\ calls'[i].b = page.b.v
                      /\ calls'[i].op = page.op]_vars

\* C28 case: 0 + 0 was submitted; the call was made with 0 and 0 and no
\* error is shown.
ZeroCountsAsPresentWitness ==
    /\ handlers[1].pc = "awaiting"
    /\ handlers[1].form = [a |-> Filled(0), b |-> Filled(0), op |-> "+"]
    /\ calls[1].pc = "awaiting"
    /\ calls[1].a = 0 /\ calls[1].b = 0
    /\ page.error = NoError

(***************************************************************************)
(* Properties of overlapping submits, checked under OverlapSpec.           *)
(***************************************************************************)
\* C25: at most one calculation is in flight at any time, and while
\* isCalculating is true no click and no Enter key starts another
\* fetchCalculation call.
OneCalculationInFlight ==
    /\ [](Cardinality(InFlight) <= 1)
    /\ [][page.isCalculating =>
             \A i \in CallIds :
                 handlers[i].pc = "none" => handlers'[i].pc = "none"]_vars

\* The call of the most recent submit that passed the validation.
Latest == CHOOSE i \in Started : \A j \in Started : j <= i

\* C26: once all started calculations have completed, the displayed value
\* is the result of the most recently submitted one, in whatever order the
\* responses of overlapping submits arrived.
LatestSubmitIsDisplayed ==
    (Started # {} /\ InFlight = {}) => page.value = calls[Latest].result

(***************************************************************************)
(* Properties of the engines, checked under EngineSpec.                    *)
(***************************************************************************)
Supported == {"+", "-", "*", "/", "^"}

ServiceReturned == svcOut # NotCalled

LocalReturned == locOut # NotCalled

\* C5: the backend engine and the frontend engine return the same value for
\* the same a, b and op, division and b = 0 included.
EnginesAgree ==
    (ServiceReturned /\ LocalReturned) => svcOut = locOut

\* The finite value x is a multiple of 1/100 and lies within 1/200 of a / b.
IsQuotientRoundedTo2(x, a, b) ==
    /\ x.kind = "num"
    /\ (100 * x.n) % x.d = 0
    /\ 200 * Abs(x.n * b - a * x.d) <= Abs(x.d * b)

\* C6: for op '/' and b # 0 the service returns a / b rounded to 2 decimal
\* places, negative quotients included.
DivisionRoundedTo2Places ==
    (ServiceReturned /\ req.op = "/" /\ req.b # 0)
        => IsQuotientRoundedTo2(svcOut, req.a, req.b)

\* C6 case: -2 / 3 gives -0.67.
DivisionRoundedTo2PlacesWitness ==
    /\ ServiceReturned /\ req.op = "/" /\ req.a = 0 - 2 /\ req.b = 3
    /\ svcOut = Rat(0 - 67, 100)

\* C7: for op '/' with b = 0 the service returns NaN for every a, never an
\* infinite value.
DivisionByZeroIsNaN ==
    (ServiceReturned /\ req.op = "/" /\ req.b = 0) => svcOut = NaN

ControllerReturned == ctlOut # NotCalled

\* C24: for every body {a, b, op} AppController.calculation returns exactly
\* what AppService.calculator returns for it, and neither call changes any
\* state: the body is not modified and a call leaves the value the other
\* returned as it is.
ControllerAddsNothing ==
    /\ []((ControllerReturned /\ ServiceReturned) => ctlOut = svcOut)
    /\ [][/\ req' = req
          /\ ctlOut' # ctlOut => svcOut' = svcOut
          /\ svcOut' # svcOut => ctlOut' = ctlOut]_vars

\* C24 case: 7 / 2 gives 3.5 from the service and from the controller.
ControllerAddsNothingWitness ==
    /\ ControllerReturned /\ ServiceReturned
    /\ req = [a |-> 7, b |-> 2, op |-> "/"]
    /\ ctlOut = Rat(7, 2)
    /\ svcOut = Rat(7, 2)

\* C8: for every op outside {+, -, *, /, ^} the service returns NaN and does
\* not throw.
UnknownOperatorIsNaN ==
    (ServiceReturned /\ req.op \notin Supported) => svcOut = NaN

\* C8 case: 2 ** 3 gives NaN.
UnknownOperatorIsNaNWitness ==
    /\ ServiceReturned /\ req.op = "**" /\ req.a = 2 /\ req.b = 3
    /\ svcOut = NaN

\* C9: the service returns the exact sum, difference and product for the
\* ops '+', '-' and '*'.
PlusMinusTimesExact ==
    ServiceReturned =>
        /\ req.op = "+" => svcOut = [kind |-> "num", n |-> req.a + req.b, d |-> 1]
        /\ req.op = "-" => svcOut = [kind |-> "num", n |-> req.a - req.b, d |-> 1]
        /\ req.op = "*" => svcOut = [kind |-> "num", n |-> req.a * req.b, d |-> 1]

\* C9 case: 5 - 8 gives -3.
PlusMinusTimesExactWitness ==
    /\ ServiceReturned /\ req.op = "-" /\ req.a = 5 /\ req.b = 8
    /\ svcOut = Num(0 - 3)

\* a multiplied by itself k times.
RECURSIVE Product(_, _)
Product(a, k) == IF k = 0 THEN 1 ELSE a * Product(a, k - 1)

\* C10: for op '^' the service returns a to the power b, unrounded: the
\* product of b factors a for b >= 0, and for b < 0 its reciprocal (positive
\* infinity when a = 0).
ExponentIsPower ==
    (ServiceReturned /\ req.op = "^") =>
        IF req.b >= 0
        THEN svcOut = [kind |-> "num", n |-> Product(req.a, req.b), d |-> 1]
        ELSE IF req.a = 0
        THEN svcOut = Inf(1)
        ELSE /\ svcOut.kind = "num"
             /\ Abs(svcOut.n) = 1
             /\ svcOut.n * Product(req.a, 0 - req.b) = svcOut.d

\* C10 case: 2 ^ -2 gives 0.25.
ExponentIsPowerWitness ==
    /\ ServiceReturned /\ req.op = "^" /\ req.a = 2 /\ req.b = 0 - 2
    /\ svcOut = Rat(1, 4)

====
